---- MODULE Spec2Model ----
(***************************************************************************)
(* Model of devices/simulated_device.py: the abstract SimulatedDevice base *)
(* class and SimulatorFactory.create.                                      *)
(*                                                                         *)
(* A dotted name is a sequence of one-character strings, so that           *)
(* str.split('.') and '.'.join are computed character by character.        *)
(* The interpreter state the code acts on is modelled explicitly: the set  *)
(* of loaded modules (sys.modules), the number of times each module body   *)
(* has been executed, the heap of constructed objects with their attribute *)
(* dictionaries, and the mutable content of the argument objects.          *)
(***************************************************************************)
EXTENDS Naturals, Sequences, FiniteSets, TLC

VARIABLES loaded, execCount, heap, objState, last

vars == <<loaded, execCount, heap, objState, last>>

(* ------------------------------ bounds --------------------------------- *)

MaxInstances == 2
MaxExec == 2

(* --------------------------- the environment --------------------------- *)

Dot == "."

\* Objects the caller can pass as constructor arguments (callables, mappings).
Objs == {"o1", "o2"}

\* Argument lists the caller passes: two triples that between them tell the
\* three positions apart, plus the empty list, one list too short and one
\* too long.
ArgLists ==
    { <<"o1", "o2", "o2">>, <<"o2", "o2", "o1">>,
      <<>>, <<"o1", "o2">>, <<"o1", "o2", "o2", "o1">> }

N_p == <<"p">>
N_pm == <<"p", ".", "m">>
N_pb == <<"p", ".", "b">>

\* Fully-qualified names the caller asks for.
Names ==
    { <<"p", ".", "m", ".", "D">>,
      <<"p", ".", "m", ".", "E">>,
      <<"p", ".", "m", ".", "N">>,
      <<"p", ".", "m", ".", "D", ".", "x">>,
      <<"p", ".", "m">>,
      <<"p", ".", "P">>,
      <<"p", ".", "G">>,
      <<"p", ".", "N">>,
      <<"p", ".", "b", ".", "D">>,
      <<"p", ".", "b">>,
      <<"p", ".", "z", ".", "D">>,
      <<"z", ".", "D">>,
      <<"D">>,
      <<".", "D">>,
      <<".", ".", "D">>,
      <<"p", ".">>,
      <<"p", ".", ".", "D">> }

Methods == {"initialize", "on_update", "run"}

Fields == {"report_state", "send_telemetry", "properties"}

BaseName == "SimulatedDevice"

\* A class: where it is defined, its name, whether it derives from
\* SimulatedDevice and which of the abstract methods it overrides.
DeviceClass(mod, cname, ov) ==
    [module |-> mod, cname |-> cname, device |-> TRUE, overrides |-> ov]

PlainClass(mod, cname) ==
    [module |-> mod, cname |-> cname, device |-> FALSE, overrides |-> {}]

SimulatedDevice == DeviceClass(<<>>, BaseName, {})

ClassD == DeviceClass(N_pm, "D", Methods)
ClassE == DeviceClass(N_pm, "E", {"initialize"})
ClassP == PlainClass(N_p, "P")
ClassG == DeviceClass(N_p, "G", Methods)

\* Subclasses of SimulatedDevice, one per set of overridden methods.
SubclassOf(ov) == DeviceClass(N_pm, IF ov = Methods THEN "D" ELSE "K", ov)

DeviceClasses == {SimulatedDevice} \cup {SubclassOf(ov) : ov \in SUBSET Methods}

\* The modules that can be found on the import path: package p (which
\* defines the plain class P and the device class G), its submodule p.m
\* (which defines the device classes D and E), and its submodule p.b whose
\* body raises when executed.
Findable == {N_p, N_pm, N_pb}
IsPackage(m) == m = N_p
BodyRaises(m) == m = N_pb

\* The names a module's body binds.
OwnAttrs(m) ==
    IF m = N_p THEN {<<"P">>, <<"G">>}
    ELSE IF m = N_pm THEN {<<"D">>, <<"E">>}
    ELSE {}

OwnAttr(m, a) ==
    IF m = N_p THEN (IF a = <<"P">> THEN ClassP ELSE ClassG)
    ELSE IF a = <<"D">> THEN ClassD ELSE ClassE

NoClass == [module |-> <<>>, cname |-> "", device |-> FALSE, overrides |-> {}]

(* ------------------------- string operations --------------------------- *)

RECURSIVE SplitFrom(_, _, _)
\* str.split('.') scanning from position i with the segment cur in progress.
SplitFrom(s, i, cur) ==
    IF i > Len(s) THEN <<cur>>
    ELSE IF s[i] = Dot THEN <<cur>> \o SplitFrom(s, i + 1, <<>>)
    ELSE SplitFrom(s, i + 1, Append(cur, s[i]))

\* full_class_name.split('.'): always at least one segment.
Split(s) == SplitFrom(s, 1, <<>>)

RECURSIVE Join(_)
\* '.'.join(parts)
Join(parts) ==
    IF Len(parts) = 0 THEN <<>>
    ELSE IF Len(parts) = 1 THEN parts[1]
    ELSE parts[1] \o <<Dot>> \o Join(Tail(parts))

\* parts[:-1]
AllButLast(parts) == SubSeq(parts, 1, Len(parts) - 1)

\* parts[-1]
LastOf(parts) == parts[Len(parts)]

\* Variant: the name is cut at its first separator.
ModulePartFirst(name) == Split(name)[1]

\* module = '.'.join(parts[:-1])
ModulePart(name) == Join(AllButLast(Split(name)))

\* simple_class_name = parts[-1]
SimpleClassName(name) == LastOf(Split(name))

(* ------------------------------ importing ------------------------------ *)

ImportOk(ld, ec) == [kind |-> "ok", why |-> "", loaded |-> ld, exec |-> ec]

ImportFail(kind, why, ld, ec) ==
    [kind |-> kind, why |-> why, loaded |-> ld, exec |-> ec]

RECURSIVE ImportPrefixesReload(_, _, _, _)
\* Variant: a module already in sys.modules is executed again.
ImportPrefixesReload(parts, k, ld, ec) ==
    LET pre == Join(SubSeq(parts, 1, k))
        parent == Join(SubSeq(parts, 1, k - 1))
    IN  IF k > Len(parts) THEN ImportOk(ld, ec)
        ELSE IF pre \notin Findable \/ (k > 1 /\ ~IsPackage(parent))
            THEN ImportFail("ModuleNotFoundError", "not found", ld, ec)
        ELSE IF BodyRaises(pre)
            THEN ImportFail("ModuleError", "body raised", ld,
                            [ec EXCEPT ![pre] = @ + 1])
        ELSE ImportPrefixesReload(parts, k + 1, ld \cup {pre},
                                  [ec EXCEPT ![pre] = @ + 1])

RECURSIVE ImportPrefixes(_, _, _, _)
\* The import system loads a dotted module name parent first: each prefix
\* that is already in sys.modules is reused, a prefix that is not is found
\* (under a parent that is a package), executed once and recorded; a body
\* that raises leaves the module unrecorded.
ImportPrefixes(parts, k, ld, ec) ==
    LET pre == Join(SubSeq(parts, 1, k))
        parent == Join(SubSeq(parts, 1, k - 1))
    IN  IF k > Len(parts) THEN ImportOk(ld, ec)
        ELSE IF pre \in ld THEN ImportPrefixes(parts, k + 1, ld, ec)
        ELSE IF pre \notin Findable \/ (k > 1 /\ ~IsPackage(parent))
            THEN ImportFail("ModuleNotFoundError", "not found", ld, ec)
        ELSE IF BodyRaises(pre)
            THEN ImportFail("ModuleError", "body raised", ld,
                            [ec EXCEPT ![pre] = @ + 1])
        ELSE ImportPrefixes(parts, k + 1, ld \cup {pre},
                            [ec EXCEPT ![pre] = @ + 1])

\* Variant: the module name is handed to the finder unchecked.
ImportModuleNoNameCheck(module, ld, ec) ==
    ImportPrefixes(Split(module), 1, ld, ec)

\* importlib.import_module(module) with no package argument.
ImportModule(module, ld, ec) ==
    IF module = <<>> THEN ImportFail("ValueError", "empty module name", ld, ec)
    ELSE IF module[1] = Dot
        THEN ImportFail("TypeError", "relative import", ld, ec)
    ELSE ImportPrefixes(Split(module), 1, ld, ec)

(* --------------------------- attribute lookup -------------------------- *)

\* A loaded submodule is bound as an attribute of its parent package.
IsSubmoduleAttr(m, a, ld) == a # <<>> /\ (m \o <<Dot>> \o a) \in ld

HasAttr(m, a, ld) == a \in OwnAttrs(m) \/ IsSubmoduleAttr(m, a, ld)

\* Variant: getattr with a default, so a missing name yields a value.
GetAttrWithDefault(m, a, ld) ==
    IF a \in OwnAttrs(m) THEN [kind |-> "class", cls |-> OwnAttr(m, a)]
    ELSE [kind |-> "module", cls |-> NoClass]

\* getattr(module, simple_class_name)
GetAttr(m, a, ld) ==
    IF ~HasAttr(m, a, ld) THEN [kind |-> "AttributeError", cls |-> NoClass]
    ELSE IF a \in OwnAttrs(m) THEN [kind |-> "class", cls |-> OwnAttr(m, a)]
    ELSE [kind |-> "module", cls |-> NoClass]

(* ----------------------------- construction ---------------------------- *)

\* Variant: the fields are not name-mangled (a single underscore).
MangleNone(cname, field) == <<BaseName, field>>

\* Private-name mangling: inside class cname, self.__field names the
\* attribute _cname__field.
Mangle(cname, field) == <<cname, field>>

\* Variant: the base class does not derive from ABC, so nothing is enforced.
AbstractMethodsNotEnforced(cls) == {}

\* Variant: run is not decorated with abstractmethod.
AbstractMethodsRunOptional(cls) ==
    IF cls.device THEN (Methods \ {"run"}) \ cls.overrides ELSE {}

\* The abstract methods a class is left with (ABC bookkeeping).
AbstractMethods(cls) == IF cls.device THEN Methods \ cls.overrides ELSE {}

\* Number of parameters of SimulatedDevice.__init__ besides self.
InitArity == 3

\* Variant: the properties reference is a shared default object.
BaseInitSharedProperties(args) ==
    (<<BaseName, "report_state">> :> args[1])
    @@ (<<BaseName, "send_telemetry">> :> args[2])
    @@ (<<BaseName, "properties">> :> "o1")

\* SimulatedDevice.__init__: binds the three references under the private
\* names of the base class.
BaseInit(args) ==
    (Mangle(BaseName, "report_state") :> args[1])
    @@ (Mangle(BaseName, "send_telemetry") :> args[2])
    @@ (Mangle(BaseName, "properties") :> args[3])

EmptyDict == [k \in {} |-> "o1"]

NoInst == [cls |-> NoClass, dict |-> EmptyDict, given |-> <<>>]

Raised(kind, why, ran) ==
    [kind |-> kind, why |-> why, initRan |-> ran, inst |-> NoInst]

\* Calling a class: the abstract-method check of ABC comes first, then the
\* constructor is run with the arguments.
Construct(cls, args) ==
    IF AbstractMethods(cls) # {}
        THEN Raised("TypeError", "abstract", FALSE)
    ELSE IF cls.device
        THEN IF Len(args) # InitArity
                THEN Raised("TypeError", "arity", FALSE)
             ELSE [kind |-> "return", why |-> "", initRan |-> TRUE,
                   inst |-> [cls |-> cls, dict |-> BaseInit(args),
                             given |-> <<>>]]
    ELSE IF Len(args) # 0
        THEN Raised("TypeError", "arity", FALSE)
    ELSE [kind |-> "return", why |-> "", initRan |-> FALSE,
          inst |-> [cls |-> cls, dict |-> EmptyDict, given |-> <<>>]]

\* Variant: the arguments reach the constructor in reverse order.
ForwardReversed(args) == [i \in 1..Len(args) |-> args[Len(args) + 1 - i]]

\* simulator_class(*args): the arguments as the callee receives them.
Forward(args) == args

(* --------------------------- the factory ------------------------------- *)

Outcome(kind, stage, why, imp, looked, called, ran, inst) ==
    [kind |-> kind, stage |-> stage, why |-> why, loaded |-> imp.loaded,
     exec |-> imp.exec, looked |-> looked, called |-> called,
     initRan |-> ran, inst |-> inst]

\* SimulatorFactory.create(full_class_name, *args) from the interpreter
\* state (ld, ec): what it raises or returns and what it leaves loaded.
CreateOutcome(name, args, ld, ec) ==
    LET module == ModulePart(name)
        simple_class_name == SimpleClassName(name)
        imp == ImportModule(module, ld, ec)
        attr == GetAttr(module, simple_class_name, imp.loaded)
        made == Construct(attr.cls, Forward(args))
    IN  IF imp.kind # "ok"
            THEN Outcome(imp.kind, "import", imp.why, imp,
                         FALSE, FALSE, FALSE, NoInst)
        ELSE IF attr.kind = "AttributeError"
            THEN Outcome("AttributeError", "lookup", "no attribute", imp,
                         TRUE, FALSE, FALSE, NoInst)
        ELSE IF attr.kind = "module"
            THEN Outcome("TypeError", "construct", "not callable", imp,
                         TRUE, TRUE, FALSE, NoInst)
        ELSE Outcome(made.kind, IF made.kind = "return" THEN "done"
                                ELSE "construct",
                     made.why, imp, TRUE, TRUE, made.initRan, made.inst)

(* ------------------------------ the state ------------------------------ *)

NoCall ==
    [op |-> "none", name |-> <<>>, nargs |-> 0, cls |-> NoClass,
     kind |-> "none", stage |-> "none", why |-> "", obj |-> 0,
     looked |-> FALSE, called |-> FALSE, initRan |-> FALSE,
     body |-> "", field |-> "", value |-> "none"]

Init ==
    /\ loaded = {}
    /\ execCount = [m \in Findable |-> 0]
    /\ heap = <<>>
    /\ objState = [o \in Objs |-> 0]
    /\ last = NoCall

\* The heap after a call that returned inst built from the caller's args.
Allocate(h, inst, args) == Append(h, [inst EXCEPT !.given = args])

\* A caller invokes SimulatorFactory.create(name, *args).
Create(name, args) ==
    \E out \in {CreateOutcome(name, args, loaded, execCount)} :
        /\ Len(heap) < MaxInstances
        /\ \A m \in Findable : out.exec[m] <= MaxExec
        /\ loaded' = out.loaded
        /\ execCount' = out.exec
        /\ heap' = IF out.kind = "return"
                       THEN Allocate(heap, out.inst, args) ELSE heap
        /\ last' = [NoCall EXCEPT !.op = "create", !.name = name,
                       !.nargs = Len(args), !.kind = out.kind,
                       !.stage = out.stage, !.why = out.why,
                       !.obj = IF out.kind = "return"
                                   THEN Len(heap) + 1 ELSE 0,
                       !.looked = out.looked, !.called = out.called,
                       !.initRan = out.initRan]
        /\ UNCHANGED objState

\* A caller instantiates a device class directly: cls(*args).
Instantiate(cls, args) ==
    \E made \in {Construct(cls, args)} :
        /\ Len(heap) < MaxInstances
        /\ heap' = IF made.kind = "return"
                       THEN Allocate(heap, made.inst, args) ELSE heap
        /\ last' = [NoCall EXCEPT !.op = "instantiate", !.cls = cls,
                       !.nargs = Len(args), !.kind = made.kind,
                       !.stage = IF made.kind = "return" THEN "done"
                                 ELSE "construct",
                       !.why = made.why,
                       !.obj = IF made.kind = "return"
                                   THEN Len(heap) + 1 ELSE 0,
                       !.called = TRUE, !.initRan = made.initRan]
        /\ UNCHANGED <<loaded, execCount, objState>>

\* What the body of a concrete subclass's method does with the private
\* names: "super" defers to the inherited body, "read" evaluates
\* self.__field, "write" assigns the payload to self.__properties.

\* self.__field evaluated inside class cname.
ReadPrivate(inst, cname, field) ==
    IF Mangle(cname, field) \in DOMAIN inst.dict
        THEN [kind |-> "return", value |-> inst.dict[Mangle(cname, field)]]
    ELSE [kind |-> "AttributeError", value |-> "none"]

\* self.__field = v executed inside class cname.
WritePrivate(inst, cname, field, v) ==
    [inst EXCEPT !.dict =
        [k \in DOMAIN inst.dict \cup {Mangle(cname, field)} |->
            IF k = Mangle(cname, field) THEN v ELSE inst.dict[k]]]

\* The inherited body of initialize, on_update and run: pass.
AbstractBody(inst) == inst

\* One call of a method of instance i whose body does `body` on `field`.
MethodCall(op, i, body, field, v) ==
    LET inst == heap[i]
        cname == inst.cls.cname
        rd == ReadPrivate(inst, cname, field)
    IN  /\ i \in 1..Len(heap)
        /\ inst.cls.device
        /\ heap' = [heap EXCEPT ![i] =
                      IF body = "write" THEN WritePrivate(inst, cname, field, v)
                      ELSE AbstractBody(inst)]
        /\ last' = [NoCall EXCEPT !.op = op, !.obj = i, !.body = body,
                       !.field = field, !.stage = "method",
                       !.kind = IF body = "read" THEN rd.kind ELSE "return",
                       !.value = IF body = "read" THEN rd.value ELSE "none"]
        /\ UNCHANGED <<loaded, execCount, objState>>

Initialize(i, body, field, v) == MethodCall("initialize", i, body, field, v)

OnUpdate(i, body, field, v) == MethodCall("on_update", i, body, field, v)

Run(i, body, field, v) == MethodCall("run", i, body, field, v)

\* The caller changes the content of a mapping object it holds.
MutateObject(o) ==
    /\ objState' = [objState EXCEPT ![o] = 1 - @]
    /\ last' = [NoCall EXCEPT !.op = "mutate", !.value = o]
    /\ UNCHANGED <<loaded, execCount, heap>>

\* The factory called with any of the names and argument lists.
Next == \E name \in Names, args \in ArgLists : Create(name, args)

Spec == Init /\ [][Next]_vars

\* The names that resolve to a class.
ClassNames ==
    { <<"p", ".", "m", ".", "D">>, <<"p", ".", "m", ".", "E">>,
      <<"p", ".", "P">>, <<"p", ".", "G">> }

\* The factory building objects, and the callers that hold the argument
\* objects changing them.
ShareNext ==
    \/ \E name \in ClassNames, args \in ArgLists : Create(name, args)
    \/ \E o \in Objs : MutateObject(o)

ShareSpec == Init /\ [][ShareNext]_vars

\* Direct instantiation of device classes and calls of their methods.
DeviceNext ==
    \/ \E cls \in DeviceClasses, args \in ArgLists : Instantiate(cls, args)
    \/ \E i \in 1..MaxInstances, f \in Fields :
          \/ Initialize(i, "super", f, "o1")
          \/ Initialize(i, "read", f, "o1")
    \/ \E i \in 1..MaxInstances, f \in Fields, payload \in Objs :
          \/ OnUpdate(i, "super", f, payload)
          \/ OnUpdate(i, "read", f, payload)
          \/ OnUpdate(i, "write", "properties", payload)
    \/ \E i \in 1..MaxInstances, f \in Fields :
          \/ Run(i, "super", f, "o1")
          \/ Run(i, "read", f, "o1")

DeviceSpec == Init /\ [][DeviceNext]_vars

(* ---------------- what the properties are stated with ------------------ *)

HasDot(s) == \E i \in 1..Len(s) : s[i] = Dot

\* Position of the last separator of s, 0 when it has none.
LastDot(s) ==
    CHOOSE i \in 0..Len(s) :
        /\ i = 0 \/ s[i] = Dot
        /\ \A j \in (i + 1)..Len(s) : s[j] # Dot

BeforeLastDot(s) == SubSeq(s, 1, LastDot(s) - 1)

AfterLastDot(s) == SubSeq(s, LastDot(s) + 1, Len(s))

\* m itself and every dotted prefix of it that ends just before a separator.
DottedPrefixes(m) ==
    {SubSeq(m, 1, k) : k \in {j \in 1..Len(m) : j = Len(m) \/ m[j + 1] = Dot}}

CanBeFound(pre) ==
    pre \in Findable /\ (HasDot(pre) => IsPackage(BeforeLastDot(pre)))

\* The module path m can be loaded: it is an absolute name, and it and each
\* of its parents is found and runs to completion.
Loadable(m) ==
    /\ m # <<>>
    /\ m[1] # Dot
    /\ \A pre \in DottedPrefixes(m) : CanBeFound(pre) /\ ~BodyRaises(pre)

\* How loading an unloadable module path fails.
ResolutionFailure(m) ==
    IF m = <<>> THEN "ValueError"
    ELSE IF m[1] = Dot THEN "TypeError"
    ELSE LET bad == CHOOSE pre \in DottedPrefixes(m) :
                      /\ ~(CanBeFound(pre) /\ ~BodyRaises(pre))
                      /\ \A q \in DottedPrefixes(m) :
                            Len(q) < Len(pre) => CanBeFound(q) /\ ~BodyRaises(q)
         IN  IF CanBeFound(bad) THEN "ModuleError" ELSE "ModuleNotFoundError"

FieldIndex(f) ==
    CASE f = "report_state" -> 1
      [] f = "send_telemetry" -> 2
      [] f = "properties" -> 3

\* The reference SimulatedDevice.__init__ bound for field f.
BoundRef(inst, f) == inst.dict[<<BaseName, f>>]

Devices(h) == {i \in 1..Len(h) : h[i].cls.device}

IsCreate == last.op = "create"

Returned == last.kind = "return"

\* What create raises or returns, from the name, the number of arguments and
\* the modules loaded when it is called.
ExpectedKind(name, nargs, ld) ==
    LET m == BeforeLastDot(name)
        a == AfterLastDot(name)
        after == ld \cup DottedPrefixes(m)
        c == OwnAttr(m, a)
    IN  IF ~Loadable(m) THEN ResolutionFailure(m)
        ELSE IF a \notin OwnAttrs(m)
            THEN IF a # <<>> /\ (m \o <<Dot>> \o a) \in after
                    THEN "TypeError" ELSE "AttributeError"
        ELSE IF c.device /\ c.overrides # Methods THEN "TypeError"
        ELSE IF nargs # (IF c.device THEN InitArity ELSE 0) THEN "TypeError"
        ELSE "return"

(* ----------------------------- properties ------------------------------ *)

\* C1: for a name whose part before the LAST separator is a loadable module
\* and whose last segment is a class of that module that overrides
\* initialize, on_update and run, called with arguments the constructor
\* accepts, create returns an object whose class is exactly that class.
C1_CreateReturnsExactClass ==
    LET m == BeforeLastDot(last.name)
        c == AfterLastDot(last.name)
    IN  ( /\ IsCreate
          /\ HasDot(last.name)
          /\ Loadable(m)
          /\ c \in OwnAttrs(m)
          /\ OwnAttr(m, c).device
          /\ OwnAttr(m, c).overrides = Methods
          /\ last.nargs = InitArity )
        => /\ Returned
           /\ last.obj \in 1..Len(heap)
           /\ heap[last.obj].cls = OwnAttr(m, c)
           /\ m \in loaded

C1_Witness ==
    /\ IsCreate
    /\ Returned
    /\ last.name = <<"p", ".", "m", ".", "D">>
    /\ heap[last.obj].cls = ClassD

\* C2 as stated: a name whose module segment cannot be loaded (a name with
\* no separator included) fails with the module-not-found kind and nothing
\* is looked up or constructed.
C2_Original ==
    (IsCreate /\ ~Loadable(BeforeLastDot(last.name)))
        => /\ last.kind = "ModuleNotFoundError"
           /\ ~last.looked
           /\ ~last.called
           /\ last.obj = 0

\* C2 amended: a name whose module segment cannot be loaded fails while the
\* module is resolved and nothing is looked up or constructed; the failure
\* is module-not-found for an absolute path that names no module, a value
\* error for an empty module segment, a type error for a module segment that
\* starts with the separator, and the module's own error when its body
\* raises.
C2_UnloadableModuleFailsBeforeLookup ==
    (IsCreate /\ ~Loadable(BeforeLastDot(last.name)))
        => /\ last.kind = ResolutionFailure(BeforeLastDot(last.name))
           /\ last.stage = "import"
           /\ ~last.looked
           /\ ~last.called
           /\ ~last.initRan
           /\ last.obj = 0

C2_Witness ==
    /\ IsCreate
    /\ last.name = <<"D">>
    /\ last.kind = "ValueError"
    /\ ~last.looked

C4_AbstractClassNotInstantiable ==
    last.op = "instantiate" =>
        /\ (Methods \ last.cls.overrides # {})
              => /\ last.kind = "TypeError"
                 /\ last.why = "abstract"
                 /\ ~last.initRan
                 /\ last.obj = 0
        /\ (last.cls.overrides = Methods /\ last.nargs = InitArity)
              => /\ Returned
                 /\ last.initRan
                 /\ heap[last.obj].cls = last.cls

C4_Witness ==
    /\ last.op = "instantiate"
    /\ last.cls.overrides = {"initialize", "on_update"}
    /\ last.nargs = InitArity
    /\ last.kind = "TypeError"

\* C5: create hands its arguments to the constructor unchanged in number,
\* order and value: an instance of a device class holds the first argument
\* as report-state, the second as send-telemetry, the third as properties.
C5_ArgsForwardedVerbatim ==
    \A i \in 1..Len(heap) :
        /\ heap[i].cls.device =>
              /\ Len(heap[i].given) = InitArity
              /\ \A f \in Fields :
                    BoundRef(heap[i], f) = heap[i].given[FieldIndex(f)]
        /\ (IsCreate /\ Returned /\ last.obj = i) =>
              Len(heap[i].given) = last.nargs

C5_Witness ==
    /\ IsCreate
    /\ Returned
    /\ heap[last.obj].cls = ClassD
    /\ heap[last.obj].given = <<"o1", "o2", "o2">>
    /\ BoundRef(heap[last.obj], "report_state") = "o1"
    /\ BoundRef(heap[last.obj], "send_telemetry") = "o2"
    /\ BoundRef(heap[last.obj], "properties") = "o2"

\* C6: after any sequence of initialize, on_update and run calls, each of
\* the three fields bound by SimulatedDevice.__init__ still refers to the
\* value supplied at construction.
C6_BoundFieldsNeverReassigned ==
    \A i \in Devices(heap) : \A f \in Fields :
        /\ <<BaseName, f>> \in DOMAIN heap[i].dict
        /\ BoundRef(heap[i], f) = heap[i].given[FieldIndex(f)]

C6_Witness ==
    /\ last.op = "on_update"
    /\ last.body = "write"
    /\ <<"D", "properties">> \in DOMAIN heap[last.obj].dict
    /\ heap[last.obj].dict[<<"D", "properties">>]
          # heap[last.obj].given[3]

\* C7 as stated: a method of a concrete subclass that refers to a bound field
\* by the private name the base constructor used reaches the value bound at
\* construction.
C7_Original ==
    (last.op \in Methods /\ last.body = "read")
        => /\ last.kind = "return"
           /\ last.value = heap[last.obj].given[FieldIndex(last.field)]

\* C8 as stated: a mutation of one instance's bound properties is never
\* observable through another instance.
C8_Original ==
    [][ \A i, j \in Devices(heap) :
          ( /\ i # j
            /\ objState'[BoundRef(heap[i], "properties")]
                  # objState[BoundRef(heap[i], "properties")] )
          => objState'[BoundRef(heap[j], "properties")]
                = objState[BoundRef(heap[j], "properties")] ]_vars

\* C8 amended: the constructor keeps the very object it is given, so a
\* mutation of the properties passed to one instance shows through another
\* instance exactly when the caller passed that same object to both.
C8_SharedOnlyWhenSameObjectPassed ==
    [][ \A i, j \in Devices(heap) :
          ( /\ i # j
            /\ objState'[heap[i].given[3]] # objState[heap[i].given[3]] )
          => ( objState'[BoundRef(heap[j], "properties")]
                  # objState[BoundRef(heap[j], "properties")]
               <=> heap[j].given[3] = heap[i].given[3] ) ]_vars

C8_Witness ==
    \E i, j \in Devices(heap) :
        /\ i # j
        /\ heap[i].given[3] # heap[j].given[3]
        /\ last.op = "mutate"
        /\ last.value = heap[i].given[3]
        /\ objState[heap[i].given[3]] # objState[heap[j].given[3]]

\* C9 as stated: every object create returns is an instance of a
\* SimulatedDevice subclass implementing the three methods.
C9_Original ==
    (IsCreate /\ Returned)
        => /\ heap[last.obj].cls.device
           /\ heap[last.obj].cls.overrides = Methods

\* C9 amended: create checks only that the name exists; what it returns is
\* the instance built by the attribute the name resolves to, whatever class
\* that is, and when that class derives from SimulatedDevice it implements
\* the three methods.
C9_ReturnsInstanceOfResolvedAttribute ==
    (IsCreate /\ Returned)
        => /\ AfterLastDot(last.name) \in OwnAttrs(BeforeLastDot(last.name))
           /\ heap[last.obj].cls
                 = OwnAttr(BeforeLastDot(last.name), AfterLastDot(last.name))
           /\ heap[last.obj].cls.device
                 => heap[last.obj].cls.overrides = Methods

C9_Witness ==
    /\ IsCreate
    /\ Returned
    /\ last.name = <<"p", ".", "P">>
    /\ ~heap[last.obj].cls.device

\* C10 as stated: a module's body is executed at most once over any sequence
\* of calls, and calls that failed leave a later call with the outcome it
\* has when nothing was called before.
C10_Original ==
    /\ \A m \in Findable : execCount[m] <= 1
    /\ (IsCreate /\ Len(heap) = 0)
          => last.kind = ExpectedKind(last.name, last.nargs, {})

C10_LoadedOnce ==
    \A m \in Findable :
        /\ m \in loaded => execCount[m] = 1
        /\ (m \notin loaded /\ ~BodyRaises(m)) => execCount[m] = 0

C10_CreateStep ==
    last'.op = "create" =>
        /\ last'.kind = ExpectedKind(last'.name, last'.nargs, loaded)
        /\ loaded \subseteq loaded'
        /\ \A m \in loaded : execCount'[m] = execCount[m]
        /\ IF last'.kind = "return"
              THEN /\ Len(heap') = Len(heap) + 1
                   /\ last'.obj = Len(heap')
                   /\ SubSeq(heap', 1, Len(heap)) = heap
              ELSE heap' = heap

\* C10 amended: a module that has loaded is never executed again, while a
\* module whose body raises is executed by every call that names it; the
\* outcome of a call is fixed by the name, the arguments and the modules
\* loaded when it is made, so an earlier call changes it only through the
\* modules it loaded; a call that returns allocates a new object and leaves
\* the earlier ones as they were, and a call that fails allocates nothing.
C10_StatelessFactory == []C10_LoadedOnce /\ [][C10_CreateStep]_vars

C10_Witness ==
    /\ IsCreate
    /\ last.name = N_pm
    /\ last.kind = "TypeError"
    /\ execCount[N_pb] = 2
    /\ Len(heap) = 1

====
